---- MODULE Spec2Model ----
(***************************************************************************)
(* Timeline construction pipeline of the frames repository:                *)
(*   extract_shots_subtitles.py  (shots + SRT / embedded subtitles),       *)
(*   extract_ocr_subtitles.py    (shots + OCR-sampled subtitles),          *)
(*   extract_shots.py            (shots only).                             *)
(* and the manifest request of app/api/frames.py that reads its output.    *)
(*                                                                         *)
(* Timestamps are float seconds in the code.  The model keeps them as     *)
(* whole milliseconds: every timestamp the model uses is k/1000 for an     *)
(* integer k, and two such floats are equal exactly when the integers are. *)
(* Texts are sequences of one-character strings, so that the string        *)
(* operations of the code (strip, join, tag removal, substring test) are   *)
(* computed and not assumed.                                               *)
(***************************************************************************)
EXTENDS Integers, Sequences, FiniteSets, TLC

VARIABLES
    pc,               \* position of the running script
    args,             \* parsed command line and the files it names
    stderr_lines,     \* diagnostic output of the scene tool (extract_shots.py run)
    shot_timestamps,  \* result of detect_shots
    srt_file,         \* blocks of the subtitle file being parsed
    subtitles,        \* (timestamp, text) list of the subtitle source
    all_timestamps,   \* the dict timestamp -> data, in insertion order
    sorted_data,      \* the merged timeline
    i,                \* index of the extraction loop (enumerate)
    frames,           \* frame records collected by extract_frames
    out_dir,          \* the output directory on disk
    exit_code,        \* process exit status, NoExit while running
    duration,         \* OCR scan: video duration
    sample_interval,  \* OCR scan: --sample-interval
    current_time,     \* OCR scan: loop variable
    samples,          \* OCR scan: what each sample so far returned
    last_subtitle,    \* OCR scan: text remembered from the previous sample
    subtitle_changes, \* OCR scan: events appended so far
    history,          \* the steps the run has taken so far, in order
    reader,           \* the GET /{movie} request of app/api/frames.py
    other,            \* a second run of the script, started next to this one
    temp_srt          \* the file /tmp/temp_subs.srt

vars == << pc, args, stderr_lines, shot_timestamps, srt_file, subtitles,
           all_timestamps, sorted_data, i, frames, out_dir, exit_code,
           duration, sample_interval, current_time, samples, last_subtitle,
           subtitle_changes, history, reader, other, temp_srt >>

\* ------------------------------------------------------------------ bounds

MaxTime == 2          \* timestamps of the pipeline are 0 .. MaxTime seconds
MaxStderr == 2        \* lines of scene-tool output in a run
MaxSubBlocks == 2     \* blocks of the subtitle file in a pipeline run
MaxBlocks == 2        \* blocks of the subtitle file in the parser check
MaxSamples == 4       \* OCR samples taken before the scan is cut off
MaxDuration == 3      \* OCR scan: largest video duration

\* ------------------------------------------------------------------ values

None == << "None" >>          \* Python's None, distinct from every text
NoExit == 0 - 1                 \* the process has not exited
Ms == 1000                    \* milliseconds per second

Truthy(x) == x # None /\ Len(x) > 0

Min(S) == CHOOSE x \in S : \A y \in S : x <= y

SeqsUpTo(S, n) == UNION { [1..k -> S] : k \in 0..n }

Range(s) == { s[k] : k \in DOMAIN s }

\* ------------------------------------------------------------------ sorting

\* sorted(list): ascending, duplicates kept
RECURSIVE InsertSorted(_, _)
InsertSorted(x, s) ==
    IF s = << >> THEN << x >>
    ELSE IF x < Head(s) THEN << x >> \o s
    ELSE << Head(s) >> \o InsertSorted(x, Tail(s))

RECURSIVE sorted(_)
sorted(s) ==
    IF s = << >> THEN << >>
    ELSE InsertSorted(s[Len(s)], sorted(SubSeq(s, 1, Len(s) - 1)))

\* list(set(list)): one occurrence of each value, in an order the code does
\* not control
RECURSIVE list_of_set(_)
list_of_set(S) ==
    IF S = {} THEN << >>
    ELSE LET x == CHOOSE y \in S : TRUE IN << x >> \o list_of_set(S \ {x})

\* sorted(values, key=lambda x: x['timestamp']): stable, ascending by key
RECURSIVE InsertByTimestamp(_, _)
InsertByTimestamp(x, s) ==
    IF s = << >> THEN << x >>
    ELSE IF x.timestamp < Head(s).timestamp THEN << x >> \o s
    ELSE << Head(s) >> \o InsertByTimestamp(x, Tail(s))

RECURSIVE sorted_by_timestamp(_)
sorted_by_timestamp(s) ==
    IF s = << >> THEN << >>
    ELSE InsertByTimestamp(s[Len(s)], sorted_by_timestamp(SubSeq(s, 1, Len(s) - 1)))

\* ------------------------------------------------------------------ detect_shots

\* A line of the scene tool's stderr: without 'pts_time:', with 'pts_time:'
\* but no number after it, or with 'pts_time:<number>'.
OtherLine == [kind |-> "other", time |-> 0]
NoMatchLine == [kind |-> "pts_nomatch", time |-> 0]
PtsLine(t) == [kind |-> "pts", time |-> t]

StderrLines(times) == { OtherLine, NoMatchLine } \cup { PtsLine(t) : t \in times }

\* the for loop of detect_shots: append float(match.group(1)) for each match
RECURSIVE matched_timestamps(_)
matched_timestamps(lines) ==
    IF lines = << >> THEN << >>
    ELSE (IF Head(lines).kind = "pts" THEN << Head(lines).time >> ELSE << >>)
         \o matched_timestamps(Tail(lines))

dedup_sort_NoSet(timestamps) == sorted(timestamps)

dedup_sort(timestamps) == sorted(list_of_set(Range(timestamps)))

detect_shots(lines) == dedup_sort(<< 0 >> \o matched_timestamps(lines))

\* ------------------------------------------------------------------ parse_srt

\* A block of the subtitle file after block.strip().split('\n'):
\*   index     lines[0]
\*   time      lines[1], NoLine when the block has one line only; a line the
\*             time pattern matches is the record of its four digit groups,
\*             any other line is BadTime
\*   text      lines[2:], each a sequence of characters
NoLine == [kind |-> "none", hours |-> 0, minutes |-> 0, seconds |-> 0, ms |-> 0]
BadTime == [kind |-> "bad", hours |-> 0, minutes |-> 0, seconds |-> 0, ms |-> 0]

TimeLine(hh, mm, ss, ms) ==
    [kind |-> "time", hours |-> hh, minutes |-> mm, seconds |-> ss, ms |-> ms]

Block(t, text) == [time |-> t, text |-> text]

\* len(lines)
line_count(block) ==
    1 + (IF block.time.kind = "none" THEN 0 ELSE 1) + Len(block.text)

\* ' '.join(lines)
RECURSIVE join_lines(_)
join_lines(lines) ==
    IF lines = << >> THEN << >>
    ELSE IF Len(lines) = 1 THEN lines[1]
    ELSE lines[1] \o << " " >> \o join_lines(Tail(lines))

\* str.strip(): drop leading and trailing whitespace
RECURSIVE lstrip(_)
lstrip(s) ==
    IF s # << >> /\ Head(s) = " " THEN lstrip(Tail(s)) ELSE s

RECURSIVE rstrip(_)
rstrip(s) ==
    IF s # << >> /\ s[Len(s)] = " " THEN rstrip(SubSeq(s, 1, Len(s) - 1)) ELSE s

strip(s) == rstrip(lstrip(s))

\* Where a match of <[^>]+> that starts at p ends, 0 when there is none:
\* the first '>' after p, with at least one character in between.
tag_end(text, p) ==
    LET closers == { j \in (p + 1)..Len(text) : text[j] = ">" }
    IN  IF text[p] # "<" \/ closers = {} THEN 0
        ELSE IF Min(closers) >= p + 2 THEN Min(closers) ELSE 0

\* re.sub(r'<[^>]+>', '', text), scanning from position p
RECURSIVE remove_tags_from(_, _)
remove_tags_from(text, p) ==
    IF p > Len(text) THEN << >>
    ELSE IF tag_end(text, p) # 0 THEN remove_tags_from(text, tag_end(text, p) + 1)
    ELSE << text[p] >> \o remove_tags_from(text, p + 1)

remove_tags(text) == remove_tags_from(text, 1)

\* hours * 3600 + minutes * 60 + seconds + ms / 1000, in milliseconds
start_time_of(t) ==
    (t.hours * 3600 + t.minutes * 60 + t.seconds) * Ms + t.ms

\* text of a block: join the remaining lines, strip, remove the tags
block_text(block) == remove_tags(strip(join_lines(block.text)))

is_unique_AllowEmpty(text, seen) == text \notin seen

is_unique_NoSeenCheck(text, seen) == Truthy(text)

\* the seen_texts test of one block
is_unique(text, seen) == Truthy(text) /\ text \notin seen

parse_block_SeenFirst(acc, block) ==
    LET text == block_text(block)
        seen == [acc EXCEPT !.seen_texts = @ \cup { text }]
    IN  IF line_count(block) < 3 THEN seen
        ELSE IF block.time.kind # "time" THEN seen
        ELSE IF is_unique(text, acc.seen_texts)
             THEN [subtitles  |-> Append(acc.subtitles, << start_time_of(block.time), text >>),
                   seen_texts |-> acc.seen_texts \cup { text }]
             ELSE acc

parse_block_Prepend(acc, block) ==
    IF line_count(block) < 3 THEN acc
    ELSE IF block.time.kind # "time" THEN acc
    ELSE LET text == block_text(block)
         IN  IF is_unique(text, acc.seen_texts)
             THEN [subtitles  |-> << << start_time_of(block.time), text >> >> \o acc.subtitles,
                   seen_texts |-> acc.seen_texts \cup { text }]
             ELSE acc

\* One iteration of the loop over the blocks; acc holds subtitles and seen_texts.
parse_block(acc, block) ==
    IF line_count(block) < 3 THEN acc
    ELSE IF block.time.kind # "time" THEN acc
    ELSE LET text == block_text(block)
         IN  IF is_unique(text, acc.seen_texts)
             THEN [subtitles  |-> Append(acc.subtitles, << start_time_of(block.time), text >>),
                   seen_texts |-> acc.seen_texts \cup { text }]
             ELSE acc

RECURSIVE parse_blocks(_, _)
parse_blocks(acc, blocks) ==
    IF blocks = << >> THEN acc
    ELSE parse_blocks(parse_block(acc, Head(blocks)), Tail(blocks))

parse_srt(blocks) ==
    parse_blocks([subtitles |-> << >>, seen_texts |-> {}], blocks).subtitles

\* extract_embedded_subtitles: has_stream is whether the probe printed a
\* subtitle stream, temp_exists whether the demuxed file exists after the
\* demux call, blocks what that file holds
extract_embedded_subtitles_Unprobed(has_stream, temp_exists, blocks) ==
    IF temp_exists THEN parse_srt(blocks) ELSE << >>

extract_embedded_subtitles(has_stream, temp_exists, blocks) ==
    IF ~has_stream THEN << >>
    ELSE IF temp_exists THEN parse_srt(blocks)
    ELSE << >>

\* ------------------------------------------------------------------ merge (main)

\* ts in all_timestamps
has_key(d, ts) == \E k \in DOMAIN d : d[k].timestamp = ts

\* all_timestamps[ts] = data: a new key goes last, an old key keeps its place
dict_set(d, ts, data) ==
    IF has_key(d, ts)
    THEN [k \in DOMAIN d |-> IF d[k].timestamp = ts THEN data ELSE d[k]]
    ELSE Append(d, data)

\* body of the loop over shot_timestamps
merge_shot(d, ts) ==
    dict_set(d, ts, [timestamp |-> ts, type |-> "shot", subtitle |-> None])

RECURSIVE merge_shots(_, _)
merge_shots(d, shots) ==
    IF shots = << >> THEN d
    ELSE merge_shots(merge_shot(d, Head(shots)), Tail(shots))

merge_subtitle_AlwaysInsert(d, ts, text) ==
    Append(d, [timestamp |-> ts, type |-> "subtitle", subtitle |-> text])

\* body of the loop over the subtitles
merge_subtitle(d, ts, text) ==
    IF has_key(d, ts)
    THEN [k \in DOMAIN d |->
            IF d[k].timestamp = ts
            THEN [d[k] EXCEPT !.subtitle = text, !.type = "shot+subtitle"]
            ELSE d[k]]
    ELSE dict_set(d, ts, [timestamp |-> ts, type |-> "subtitle", subtitle |-> text])

RECURSIVE merge_subtitles(_, _)
merge_subtitles(d, subs) ==
    IF subs = << >> THEN d
    ELSE merge_subtitles(merge_subtitle(d, Head(subs)[1], Head(subs)[2]), Tail(subs))

sort_timeline_Unsorted(d) == d

\* sorted(all_timestamps.values(), key=lambda x: x['timestamp'])
sort_timeline(d) == sorted_by_timestamp(d)

\* ------------------------------------------------------------------ extract_frames

\* The output directory: whether it exists, the frame numbers of the files in
\* thumbs/ and full/, and the manifest document (NoManifest when absent).
NoManifest == [movie_name |-> "none", total_frames |-> 0, shot_frames |-> 0,
               subtitle_frames |-> 0, extraction_type |-> "none", frames |-> << >>]

AbsentDir == [exists |-> FALSE, thumbs |-> {}, fulls |-> {}, manifest |-> NoManifest]

clear_output_ThumbsOnly(dir) == IF dir.exists THEN [dir EXCEPT !.thumbs = {}] ELSE dir

\* shutil.rmtree(output_dir) when it exists
clear_output(dir) == IF dir.exists THEN AbsentDir ELSE dir

\* the two mkdir(parents=True, exist_ok=True)
make_dirs(dir) == [dir EXCEPT !.exists = TRUE]

\* The timestamps at which a timecode is rendered on its own: around the
\* second, the minute and the hour.
TimecodeTimes ==
    { 0, 1, 999, 1000, 1001, 1002, 1500, 1999, 2001, 59999, 60000, 60001,
      3599999, 3600000, 3600001 }

\* ts is a double, and so is (ts % 1) * 1000 before int() truncates it.  For
\* the timestamps below, the double nearest to ts / 1000 has a fractional
\* part whose product with 1000 is the double just under the whole number of
\* milliseconds (1.001 % 1 is 0.000999999999999889..., times 1000 is
\* 0.99999999999988...).  The other timestamps of this model (the multiples
\* of half a second and the other members of TimecodeTimes) give the whole
\* number or a double above it.  The float is the same whether the timestamp
\* was read from the scene tool's text or summed by parse_srt.
FloatLossy == { 1001, 2001, 60001, 3599999 }

\* int((ts % 1) * 1000)
float_ms(ts) == IF ts \in FloatLossy THEN (ts % Ms) - 1 ELSE ts % Ms

\* The timecode fields: int(ts // 3600), int((ts % 3600) // 60), int(ts % 60)
\* are exact on these doubles, the milliseconds are not.
timecode_of(ts) ==
    [hours   |-> ts \div (3600 * Ms),
     minutes |-> (ts % (3600 * Ms)) \div (60 * Ms),
     seconds |-> (ts % (60 * Ms)) \div Ms,
     ms      |-> float_ms(ts)]

\* frame_data of one event whose thumbnail exists
frame_data(frame_num, data) ==
    LET base == [number    |-> frame_num,
                 thumbnail |-> frame_num,
                 full      |-> frame_num,
                 timecode  |-> timecode_of(data.timestamp),
                 timestamp |-> data.timestamp,
                 type      |-> data.type]
    IN  IF Truthy(data.subtitle)
        THEN base @@ [subtitle |-> data.subtitle]
        ELSE base

record_frame_NeedsFull(fs, dir, frame_num, data) ==
    IF frame_num \in dir.thumbs /\ frame_num \in dir.fulls
    THEN Append(fs, frame_data(frame_num, data))
    ELSE fs

record_frame_Unchecked(fs, dir, frame_num, data) == Append(fs, frame_data(frame_num, data))

\* the test "if thumb_path.exists()" and the append that follows
record_frame(fs, dir, frame_num, data) ==
    IF frame_num \in dir.thumbs THEN Append(fs, frame_data(frame_num, data)) ELSE fs

\* ------------------------------------------------------------------ manifest

\* the parts of a type string, for the substring tests of the counts
type_parts(type) ==
    CASE type = "shot" -> << "shot" >>
      [] type = "subtitle" -> << "subtitle" >>
      [] type = "shot+subtitle" -> << "shot", "+", "subtitle" >>

\* needle in f['type']
in_type(needle, type) == \E k \in DOMAIN type_parts(type) : type_parts(type)[k] = needle

\* sum(1 for f in frames if needle in f['type'])
RECURSIVE count_type(_, _)
count_type(needle, fs) ==
    IF fs = << >> THEN 0
    ELSE (IF in_type(needle, Head(fs).type) THEN 1 ELSE 0) + count_type(needle, Tail(fs))

shot_count_ExactType(fs) == Cardinality({ k \in DOMAIN fs : fs[k].type = "shot" })

shot_count(fs) == count_type("shot", fs)

sub_count(fs) == count_type("subtitle", fs)

make_manifest(fs) ==
    [movie_name      |-> "movie",
     total_frames    |-> Len(fs),
     shot_frames     |-> shot_count(fs),
     subtitle_frames |-> sub_count(fs),
     extraction_type |-> "shots_and_subtitles",
     frames          |-> fs]

\* ------------------------------------------------------------------ inputs

Times == { k * Ms : k \in 0..MaxTime }

\* what the scene tool may print in a pipeline run
StderrOutputs == SeqsUpTo(StderrLines(Times), MaxStderr)

\* text lines of a pipeline run: two plain texts and a tag alone
TextLines == { << "a" >>, << "b" >>, << "<", "i", ">" >> }

\* well-formed blocks at whole seconds, and the subtitle files made of them
SubBlocks ==
    { Block(TimeLine(0, 0, k, 0), << line >>) : k \in 0..MaxTime, line \in TextLines }

SubFiles == SeqsUpTo(SubBlocks, MaxSubBlocks)

\* what an earlier run left in the output directory
StaleDir ==
    [exists   |-> TRUE,
     thumbs   |-> 1..(MaxTime + 1),
     fulls    |-> 1..(MaxTime + 1),
     manifest |-> [make_manifest(<< frame_data(1, [timestamp |-> 0, type |-> "shot",
                                                    subtitle |-> None]) >>)
                   EXCEPT !.movie_name = "earlier"]]

ArgSets ==
    { a \in [video_exists : BOOLEAN, subs_only : BOOLEAN, shots_only : BOOLEAN,
             srt : BOOLEAN, srt_exists : BOOLEAN] :
        (~a.srt => a.srt_exists) }

NoArgs == [video_exists |-> TRUE, subs_only |-> FALSE, shots_only |-> FALSE,
           srt |-> FALSE, srt_exists |-> TRUE]

\* One step of a run as the history keeps it: the operation, the frame number
\* it is for (the sample time for a capture of the OCR scan, 0 when it is for
\* none), and whether it produced its file or result.
Step(op, n, ok) == [op |-> op, n |-> n, ok |-> ok]

\* the external calls of extract_embedded_subtitles: the probe, and the demux
\* only when the probe printed a stream index
embedded_steps(has_stream, temp_exists) ==
    IF has_stream
    THEN << Step("ffprobe", 0, TRUE), Step("demux", 0, temp_exists) >>
    ELSE << Step("ffprobe", 0, FALSE) >>

\* ------------------------------------------------------------------ get_frames of app/api/frames.py

\* movie_name of the empty answer: None in the code, written as a string here
\* because every other movie_name is one
NullName == "null"

\* return {"frames": [], "movie_name": None, "total_frames": 0}
EmptyShape == [frames |-> << >>, movie_name |-> NullName, total_frames |-> 0]

\* manifest.json between open(manifest_path, 'w') and the end of json.dump:
\* the file exists and holds a proper prefix of the document, which is no JSON
\* value (the document starts with a brace that only its last byte closes)
TruncatedManifest == [NoManifest EXCEPT !.extraction_type = "truncated"]

\* os.path.exists(manifest_path)
manifest_exists(dir) == dir.exists /\ dir.manifest # NoManifest

\* the whole document is on disk
manifest_complete(dir) == manifest_exists(dir) /\ dir.manifest # TruncatedManifest

\* a request: where it is, what the existence test said, what it returned or raised
NoRequest == [pc |-> "idle", exists |-> FALSE, result |-> NoManifest, error |-> "none"]

json_load_FramesDropped(dir) ==
    IF ~manifest_exists(dir)
    THEN [pc |-> "raised", result |-> NoManifest, error |-> "FileNotFoundError"]
    ELSE IF dir.manifest = TruncatedManifest
    THEN [pc |-> "raised", result |-> NoManifest, error |-> "JSONDecodeError"]
    ELSE [pc |-> "returned", result |-> [dir.manifest EXCEPT !.frames = << >>],
          error |-> "none"]

\* with open(manifest_path, 'r') as f: manifest = json.load(f); return manifest
\* No handler surrounds the two calls: open raises when the file is gone,
\* json.load raises on a text that is no JSON value.
json_load(dir) ==
    IF ~manifest_exists(dir)
    THEN [pc |-> "raised", result |-> NoManifest, error |-> "FileNotFoundError"]
    ELSE IF dir.manifest = TruncatedManifest
    THEN [pc |-> "raised", result |-> NoManifest, error |-> "JSONDecodeError"]
    ELSE [pc |-> "returned", result |-> dir.manifest, error |-> "none"]

\* no second run: its record is empty
NoOther == [pc |-> "none"]

\* temp_srt = Path('/tmp/temp_subs.srt') when no such file exists
NoTempFile == [exists |-> FALSE, video |-> 0, blocks |-> << >>]

\* a run on its own: no second run, no temporary subtitle file
PeerIdle ==
    /\ other = NoOther
    /\ temp_srt = NoTempFile

peer_vars == << other, temp_srt >>

\* the variables of the OCR scan, at rest
ScanIdle ==
    /\ duration = 0
    /\ sample_interval = 0
    /\ current_time = 0
    /\ samples = << >>
    /\ last_subtitle = << >>
    /\ subtitle_changes = << >>

scan_vars == << duration, sample_interval, current_time, samples, last_subtitle,
                subtitle_changes >>

\* ------------------------------------------------------------------ main of extract_shots_subtitles.py

Init ==
    /\ pc = "start"
    /\ args \in ArgSets
    /\ stderr_lines = << >>
    /\ shot_timestamps = << >>
    /\ srt_file = << >>
    /\ subtitles = << >>
    /\ all_timestamps = << >>
    /\ sorted_data = << >>
    /\ i = 0
    /\ frames = << >>
    /\ out_dir \in { AbsentDir, StaleDir }
    /\ exit_code = NoExit
    /\ ScanIdle
    /\ history = << >>
    /\ reader = NoRequest
    /\ PeerIdle

MainCheckVideo_Unchecked ==
    /\ pc = "start"
    /\ pc' = "shots"
    /\ UNCHANGED << args, stderr_lines, shot_timestamps, srt_file, subtitles,
                    all_timestamps, sorted_data, i, frames, out_dir, exit_code,
                    scan_vars, history, reader, peer_vars >>

\* if not video_path.exists(): sys.exit(1)
MainCheckVideo ==
    /\ pc = "start"
    /\ IF args.video_exists
       THEN /\ pc' = "shots"
            /\ exit_code' = exit_code
       ELSE /\ pc' = "exit"
            /\ exit_code' = 1
    /\ UNCHANGED << args, stderr_lines, shot_timestamps, srt_file, subtitles,
                    all_timestamps, sorted_data, i, frames, out_dir, scan_vars, history, reader, peer_vars >>

\* if not args.subs_only: detect_shots, then one dict entry per shot
MainDetectShots ==
    /\ pc = "shots"
    /\ IF args.subs_only
       THEN UNCHANGED << shot_timestamps, all_timestamps, history >>
       ELSE \E lines \in StderrOutputs :
               /\ shot_timestamps' = detect_shots(lines)
               /\ all_timestamps' = merge_shots(all_timestamps, detect_shots(lines))
               /\ history' = Append(history, Step("detect_shots", 0, TRUE))
    /\ pc' = "subs"
    /\ UNCHANGED << args, stderr_lines, srt_file, subtitles, sorted_data, i, frames,
                    out_dir, exit_code, scan_vars, reader, peer_vars >>

\* if not args.shots_only: parse_srt of --srt, or the embedded stream
MainGetSubtitles ==
    /\ pc = "subs"
    /\ IF args.shots_only
       THEN /\ pc' = "sort"
            /\ UNCHANGED << subtitles, exit_code, history >>
       ELSE IF args.srt
       THEN IF ~args.srt_exists
            THEN /\ pc' = "exit"
                 /\ exit_code' = 1
                 /\ UNCHANGED << subtitles, history >>
            ELSE /\ \E blocks \in SubFiles : subtitles' = parse_srt(blocks)
                 /\ history' = Append(history, Step("parse_srt", 0, TRUE))
                 /\ pc' = "merge"
                 /\ UNCHANGED exit_code
       ELSE /\ \E has_stream \in BOOLEAN, temp_exists \in BOOLEAN, blocks \in SubFiles :
                 /\ subtitles' = extract_embedded_subtitles(has_stream, temp_exists, blocks)
                 /\ history' = history \o embedded_steps(has_stream, temp_exists)
            /\ pc' = "merge"
            /\ UNCHANGED exit_code
    /\ UNCHANGED << args, stderr_lines, shot_timestamps, srt_file, all_timestamps,
                    sorted_data, i, frames, out_dir, scan_vars, reader, peer_vars >>

\* for ts, text in subtitles: upgrade the entry at ts or insert a new one
MainMergeSubtitles ==
    /\ pc = "merge"
    /\ all_timestamps' = merge_subtitles(all_timestamps, subtitles)
    /\ pc' = "sort"
    /\ history' = Append(history, Step("merge", 0, TRUE))
    /\ UNCHANGED << args, stderr_lines, shot_timestamps, srt_file, subtitles,
                    sorted_data, i, frames, out_dir, exit_code, scan_vars, reader, peer_vars >>

\* sorted_data = sorted(all_timestamps.values(), ...)
MainSort ==
    /\ pc = "sort"
    /\ sorted_data' = sort_timeline(all_timestamps)
    /\ pc' = "clear"
    /\ history' = Append(history, Step("sort", 0, TRUE))
    /\ UNCHANGED << args, stderr_lines, shot_timestamps, srt_file, subtitles,
                    all_timestamps, i, frames, out_dir, exit_code, scan_vars, reader, peer_vars >>

\* if output_dir.exists(): shutil.rmtree(output_dir)
MainClearOutput ==
    /\ pc = "clear"
    /\ out_dir' = clear_output(out_dir)
    /\ pc' = "mkdir"
    /\ history' = Append(history, Step("rmtree", 0, out_dir.exists))
    /\ UNCHANGED << args, stderr_lines, shot_timestamps, srt_file, subtitles,
                    all_timestamps, sorted_data, i, frames, exit_code, scan_vars, reader, peer_vars >>

\* extract_frames up to its loop: the two directories, frames = []
ExtractFramesBegin ==
    /\ pc = "mkdir"
    /\ out_dir' = make_dirs(out_dir)
    /\ frames' = << >>
    /\ i' = 0
    /\ pc' = IF sorted_data = << >> THEN "manifest" ELSE "thumb"
    /\ history' = Append(history, Step("mkdir", 0, TRUE))
    /\ UNCHANGED << args, stderr_lines, shot_timestamps, srt_file, subtitles,
                    all_timestamps, sorted_data, exit_code, scan_vars, reader, peer_vars >>

CaptureThumb_RetryOnce ==
    /\ pc = "thumb"
    /\ \E ok \in BOOLEAN, again \in BOOLEAN :
          /\ out_dir' = IF (ok \/ again) /\ out_dir.exists
                        THEN [out_dir EXCEPT !.thumbs = @ \cup { i + 1 }]
                        ELSE out_dir
          /\ history' = IF ok
                        THEN Append(history, Step("thumb", i + 1, out_dir.exists))
                        ELSE history \o << Step("thumb", i + 1, FALSE),
                                           Step("thumb", i + 1, again /\ out_dir.exists) >>
    /\ pc' = "full"
    /\ UNCHANGED << args, stderr_lines, shot_timestamps, srt_file, subtitles,
                    all_timestamps, sorted_data, i, frames, exit_code, scan_vars, reader, peer_vars >>

\* subprocess.run(cmd_thumb): the file frame_{i+1} appears in thumbs/ or not
CaptureThumb ==
    /\ pc = "thumb"
    /\ \E ok \in BOOLEAN :
          /\ out_dir' = IF ok /\ out_dir.exists
                        THEN [out_dir EXCEPT !.thumbs = @ \cup { i + 1 }]
                        ELSE out_dir
          /\ history' = Append(history, Step("thumb", i + 1, ok /\ out_dir.exists))
    /\ pc' = "full"
    /\ UNCHANGED << args, stderr_lines, shot_timestamps, srt_file, subtitles,
                    all_timestamps, sorted_data, i, frames, exit_code, scan_vars, reader, peer_vars >>

\* subprocess.run(cmd_full): the file frame_{i+1} appears in full/ or not
CaptureFull ==
    /\ pc = "full"
    /\ \E ok \in BOOLEAN :
          /\ out_dir' = IF ok /\ out_dir.exists
                        THEN [out_dir EXCEPT !.fulls = @ \cup { i + 1 }]
                        ELSE out_dir
          /\ history' = Append(history, Step("full", i + 1, ok /\ out_dir.exists))
    /\ pc' = "record"
    /\ UNCHANGED << args, stderr_lines, shot_timestamps, srt_file, subtitles,
                    all_timestamps, sorted_data, i, frames, exit_code, scan_vars, reader, peer_vars >>

RecordFrame_StopsEarly ==
    /\ pc = "record"
    /\ frames' = record_frame(frames, out_dir, i + 1, sorted_data[i + 1])
    /\ i' = i + 1
    /\ pc' = IF i + 1 < Len(sorted_data) - 1 THEN "thumb" ELSE "manifest"
    /\ UNCHANGED << args, stderr_lines, shot_timestamps, srt_file, subtitles,
                    all_timestamps, sorted_data, out_dir, exit_code, scan_vars,
                    history, reader, peer_vars >>

RecordFrame_AbortOnFailure ==
    /\ pc = "record"
    /\ frames' = record_frame(frames, out_dir, i + 1, sorted_data[i + 1])
    /\ i' = i + 1
    /\ IF (i + 1) \notin out_dir.thumbs
       THEN /\ pc' = "exit"
            /\ exit_code' = 1
       ELSE /\ pc' = IF i + 1 < Len(sorted_data) THEN "thumb" ELSE "manifest"
            /\ exit_code' = exit_code
    /\ UNCHANGED << args, stderr_lines, shot_timestamps, srt_file, subtitles,
                    all_timestamps, sorted_data, out_dir, scan_vars, history, reader, peer_vars >>

\* if thumb_path.exists(): frames.append(frame_data); next event
RecordFrame ==
    /\ pc = "record"
    /\ frames' = record_frame(frames, out_dir, i + 1, sorted_data[i + 1])
    /\ i' = i + 1
    /\ pc' = IF i + 1 < Len(sorted_data) THEN "thumb" ELSE "manifest"
    /\ UNCHANGED << args, stderr_lines, shot_timestamps, srt_file, subtitles,
                    all_timestamps, sorted_data, out_dir, exit_code, scan_vars, history, reader, peer_vars >>

\* the counts, the manifest document, json.dump to manifest.json
\* open raises when the output directory is not there, which no run on its
\* own can see
MainWriteManifest ==
    /\ pc = "manifest"
    /\ IF out_dir.exists
       THEN /\ out_dir' = [out_dir EXCEPT !.manifest = make_manifest(frames)]
            /\ pc' = "done"
            /\ exit_code' = 0
       ELSE /\ out_dir' = out_dir
            /\ pc' = "crashed"
            /\ exit_code' = 1
    /\ history' = Append(history, Step("manifest", 0, out_dir.exists))
    /\ UNCHANGED << args, stderr_lines, shot_timestamps, srt_file, subtitles,
                    all_timestamps, sorted_data, i, frames, scan_vars, reader, peer_vars >>

Next ==
    \/ MainCheckVideo
    \/ MainDetectShots
    \/ MainGetSubtitles
    \/ MainMergeSubtitles
    \/ MainSort
    \/ MainClearOutput
    \/ ExtractFramesBegin
    \/ CaptureThumb
    \/ CaptureFull
    \/ RecordFrame
    \/ MainWriteManifest

Spec == Init /\ [][Next]_vars

\* The script is one sequential process and every external call it makes is a
\* blocking subprocess.run that returns, with success or failure: a run that
\* can take a step takes it.
SpecLive == Init /\ [][Next]_vars /\ WF_vars(Next)

\* ------------------------------------------------------------------ extract_shots.py

\* frames.append({...}) of extract_frames_at_timestamps: no type, no subtitle,
\* a timecode without milliseconds
shots_frame_data(frame_num, ts) ==
    [number    |-> frame_num,
     thumbnail |-> frame_num,
     full      |-> frame_num,
     timecode  |-> [timecode_of(ts) EXCEPT !.ms = 0],
     timestamp |-> ts]

shots_record_frame(fs, dir, frame_num, ts) ==
    IF frame_num \in dir.thumbs THEN Append(fs, shots_frame_data(frame_num, ts)) ELSE fs

shots_manifest(fs) ==
    [movie_name      |-> "movie",
     total_frames    |-> Len(fs),
     extraction_type |-> "shot_detection",
     frames          |-> fs]

\* for f in thumbs_dir.glob('*.jpg'): f.unlink()
clear_thumbs(dir) == IF dir.exists THEN [dir EXCEPT !.thumbs = {}] ELSE dir

\* if len(timestamps) == 0
no_shots(timestamps) == Len(timestamps) = 0

InitShots ==
    /\ pc = "start"
    /\ args \in { [NoArgs EXCEPT !.video_exists = v] : v \in BOOLEAN }
    /\ stderr_lines \in StderrOutputs
    /\ shot_timestamps = << >>
    /\ srt_file = << >>
    /\ subtitles = << >>
    /\ all_timestamps = << >>
    /\ sorted_data = << >>
    /\ i = 0
    /\ frames = << >>
    /\ out_dir \in { AbsentDir, StaleDir }
    /\ exit_code = NoExit
    /\ ScanIdle
    /\ history = << >>
    /\ reader = NoRequest
    /\ PeerIdle

\* if not video_path.exists(): sys.exit(1)
ShotsCheckVideo ==
    /\ pc = "start"
    /\ IF args.video_exists
       THEN /\ pc' = "shots"
            /\ exit_code' = exit_code
       ELSE /\ pc' = "exit"
            /\ exit_code' = 1
    /\ UNCHANGED << args, stderr_lines, shot_timestamps, srt_file, subtitles,
                    all_timestamps, sorted_data, i, frames, out_dir, scan_vars, history, reader, peer_vars >>

\* timestamps = detect_shots(video_path, threshold)
ShotsDetect ==
    /\ pc = "shots"
    /\ shot_timestamps' = detect_shots(stderr_lines)
    /\ pc' = "check"
    /\ history' = Append(history, Step("detect_shots", 0, TRUE))
    /\ UNCHANGED << args, stderr_lines, srt_file, subtitles, all_timestamps,
                    sorted_data, i, frames, out_dir, exit_code, scan_vars, reader, peer_vars >>

\* if len(timestamps) == 0: print the hint, sys.exit(1)
ShotsCheckEmpty ==
    /\ pc = "check"
    /\ IF no_shots(shot_timestamps)
       THEN /\ pc' = "exit"
            /\ exit_code' = 1
       ELSE /\ pc' = "clear"
            /\ exit_code' = exit_code
    /\ UNCHANGED << args, stderr_lines, shot_timestamps, srt_file, subtitles,
                    all_timestamps, sorted_data, i, frames, out_dir, scan_vars, history, reader, peer_vars >>

\* clear the old thumbnails, then extract_frames_at_timestamps up to its loop
ShotsClearThumbs ==
    /\ pc = "clear"
    /\ out_dir' = make_dirs(clear_thumbs(out_dir))
    /\ frames' = << >>
    /\ i' = 0
    /\ pc' = IF shot_timestamps = << >> THEN "manifest" ELSE "thumb"
    /\ history' = Append(history, Step("mkdir", 0, TRUE))
    /\ UNCHANGED << args, stderr_lines, shot_timestamps, srt_file, subtitles,
                    all_timestamps, sorted_data, exit_code, scan_vars, reader, peer_vars >>

\* if thumb_path.exists(): frames.append({...}); next timestamp
ShotsRecordFrame ==
    /\ pc = "record"
    /\ frames' = shots_record_frame(frames, out_dir, i + 1, shot_timestamps[i + 1])
    /\ i' = i + 1
    /\ pc' = IF i + 1 < Len(shot_timestamps) THEN "thumb" ELSE "manifest"
    /\ UNCHANGED << args, stderr_lines, shot_timestamps, srt_file, subtitles,
                    all_timestamps, sorted_data, out_dir, exit_code, scan_vars, history, reader, peer_vars >>

\* json.dump(manifest) to static/frames/manifest.json
ShotsWriteManifest ==
    /\ pc = "manifest"
    /\ out_dir' = [out_dir EXCEPT !.manifest = shots_manifest(frames)]
    /\ pc' = "done"
    /\ exit_code' = 0
    /\ history' = Append(history, Step("manifest", 0, TRUE))
    /\ UNCHANGED << args, stderr_lines, shot_timestamps, srt_file, subtitles,
                    all_timestamps, sorted_data, i, frames, scan_vars, reader, peer_vars >>

NextShots ==
    \/ ShotsCheckVideo
    \/ ShotsDetect
    \/ ShotsCheckEmpty
    \/ ShotsClearThumbs
    \/ CaptureThumb
    \/ CaptureFull
    \/ ShotsRecordFrame
    \/ ShotsWriteManifest

SpecShots == InitShots /\ [][NextShots]_vars

\* ------------------------------------------------------------------ parse_srt on its own

\* time lines: 0 s, 1 s, 1.5 s, and one minute written in two ways
SrtTimes ==
    { BadTime, TimeLine(0, 0, 0, 0), TimeLine(0, 0, 1, 0), TimeLine(0, 0, 1, 500),
      TimeLine(0, 1, 0, 0), TimeLine(0, 0, 60, 0) }

\* lines[2:] of a block: plain text, text in a tag, a tag alone, two lines
SrtTexts ==
    { << << "a" >> >>,
      << << "b" >> >>,
      << << "<", "i", ">", "a" >> >>,
      << << "<", "i", ">" >> >>,
      << << "a" >>, << "b" >> >> }

\* the blocks: every time line with every text, and blocks of one or two lines
SrtBlocks ==
    { Block(t, text) : t \in SrtTimes, text \in SrtTexts }
        \cup { Block(NoLine, << >>), Block(TimeLine(0, 0, 0, 0), << >>) }

InitSrt ==
    /\ pc = "parse"
    /\ args = NoArgs
    /\ stderr_lines = << >>
    /\ shot_timestamps = << >>
    /\ srt_file \in SeqsUpTo(SrtBlocks, MaxBlocks)
    /\ subtitles = << >>
    /\ all_timestamps = << >>
    /\ sorted_data = << >>
    /\ i = 0
    /\ frames = << >>
    /\ out_dir = AbsentDir
    /\ exit_code = NoExit
    /\ ScanIdle
    /\ history = << >>
    /\ reader = NoRequest
    /\ PeerIdle

\* subtitles = parse_srt(srt_path)
ParseSrt ==
    /\ pc = "parse"
    /\ subtitles' = parse_srt(srt_file)
    /\ pc' = "parsed"
    /\ UNCHANGED << args, stderr_lines, shot_timestamps, srt_file, all_timestamps,
                    sorted_data, i, frames, out_dir, exit_code, scan_vars, history, reader, peer_vars >>

NextSrt == ParseSrt

SpecSrt == InitSrt /\ [][NextSrt]_vars

\* ------------------------------------------------------------------ scan_for_subtitle_changes

Half == 500     \* the default --sample-interval, in milliseconds

\* whitespace, and the characters the clean-up keeps
is_space(c) == c \in { " ", "\n" }

is_kept(c) == is_space(c) \/ c \in { "a", "b", "c", "x", "y", "z", "'", ".", ",", "!", "?", "-" }

RECURSIVE lstrip_ws(_)
lstrip_ws(s) ==
    IF s # << >> /\ is_space(Head(s)) THEN lstrip_ws(Tail(s)) ELSE s

RECURSIVE rstrip_ws(_)
rstrip_ws(s) ==
    IF s # << >> /\ is_space(s[Len(s)]) THEN rstrip_ws(SubSeq(s, 1, Len(s) - 1)) ELSE s

\* re.sub(r'\s+', ' ', text)
RECURSIVE collapse_ws(_)
collapse_ws(s) ==
    IF s = << >> THEN << >>
    ELSE IF is_space(Head(s)) THEN << " " >> \o collapse_ws(lstrip_ws(s))
    ELSE << Head(s) >> \o collapse_ws(Tail(s))

\* re.sub(r'[^\w\s\'".,!?-]', '', text)
remove_weird(s) == SelectSeq(s, is_kept)

\* text if len(text) > 2 else ''
drop_short(s) == IF Len(s) > 2 THEN s ELSE << >>

\* ocr_subtitle_region: raw is what the recognition returned; an exception
\* anywhere in the try block gives ''
ocr_subtitle_region(raised, raw) ==
    IF raised THEN << >>
    ELSE drop_short(remove_weird(collapse_ws(rstrip_ws(lstrip_ws(raw)))))

\* what the recognition may return
RawOcrTexts ==
    { << >>,
      << "a", "b" >>,
      << "a", "b", "c" >>,
      << "\n", "a", "b", "c", " " >>,
      << "a", "#", "b", "c" >>,
      << "x", "y", "z" >> }

\* --sample-interval is any float: negative, zero, the default, twice the default
SampleIntervals == { 0 - Half, 0, Half, 2 * Half }

Durations == { k * Half : k \in 0..MaxDuration }

\* "if subtitle_text != last_subtitle: ..." on the scan state st
scan_update_NoRemember(st, t, text) ==
    IF text # st.last
    THEN [changes |-> IF Truthy(text) THEN Append(st.changes, << t, text >>)
                      ELSE st.changes,
          last |-> st.last]
    ELSE st

scan_update(st, t, text) ==
    IF text # st.last
    THEN [changes |-> IF Truthy(text) THEN Append(st.changes, << t, text >>)
                      ELSE st.changes,
          last |-> text]
    ELSE st

\* a scan that forgets the previous text when no frame was captured
scan_sample_ResetOnMiss(st, t, frame, text) ==
    IF frame THEN scan_update(st, t, text) ELSE [st EXCEPT !.last = << >>]

\* one sample: frame is whether extract_frame_for_ocr returned a path
scan_sample(st, t, frame, text) ==
    IF frame THEN scan_update(st, t, text) ELSE st

InitOcr ==
    /\ pc = "begin"
    /\ args = NoArgs
    /\ stderr_lines = << >>
    /\ shot_timestamps = << >>
    /\ srt_file = << >>
    /\ subtitles = << >>
    /\ all_timestamps = << >>
    /\ sorted_data = << >>
    /\ i = 0
    /\ frames = << >>
    /\ out_dir = AbsentDir
    /\ exit_code = NoExit
    /\ duration \in Durations
    /\ sample_interval \in SampleIntervals
    /\ current_time = 0
    /\ samples = << >>
    /\ last_subtitle = << >>
    /\ subtitle_changes = << >>
    /\ history = << >>
    /\ reader = NoRequest
    /\ PeerIdle

\* total_samples = int(duration / sample_interval), before the loop: the
\* division raises ZeroDivisionError for --sample-interval 0
ScanBegin ==
    /\ pc = "begin"
    /\ IF sample_interval = 0
       THEN /\ pc' = "crashed"
            /\ exit_code' = 1
       ELSE /\ pc' = "scan"
            /\ exit_code' = exit_code
    /\ UNCHANGED << args, stderr_lines, shot_timestamps, srt_file, subtitles,
                    all_timestamps, sorted_data, i, frames, out_dir, scan_vars,
                    history, reader, peer_vars >>

\* One iteration of "while current_time < duration".  samples records what the
\* iteration saw and whether it appended an event.
ScanSample ==
    /\ pc = "scan"
    /\ current_time < duration
    /\ Len(samples) < MaxSamples
    /\ \E frame \in BOOLEAN, raised \in BOOLEAN, raw \in RawOcrTexts :
          LET text == IF frame THEN ocr_subtitle_region(raised, raw) ELSE None
              st   == scan_sample([changes |-> subtitle_changes, last |-> last_subtitle],
                                  current_time, frame, text)
          IN  /\ subtitle_changes' = st.changes
              /\ last_subtitle' = st.last
              /\ samples' = Append(samples,
                                   [time    |-> current_time,
                                    frame   |-> frame,
                                    text    |-> text,
                                    emitted |-> Len(st.changes) > Len(subtitle_changes)])
              /\ history' = Append(history, Step("ocr_frame", current_time, frame))
    /\ current_time' = current_time + sample_interval
    /\ UNCHANGED << pc, args, stderr_lines, shot_timestamps, srt_file, subtitles,
                    all_timestamps, sorted_data, i, frames, out_dir, exit_code,
                    duration, sample_interval, reader, peer_vars >>

\* the loop condition fails: return subtitle_changes
ScanReturn ==
    /\ pc = "scan"
    /\ ~(current_time < duration)
    /\ pc' = "scanned"
    /\ subtitles' = subtitle_changes
    /\ UNCHANGED << args, stderr_lines, shot_timestamps, srt_file, all_timestamps,
                    sorted_data, i, frames, out_dir, exit_code, scan_vars, history, reader, peer_vars >>

NextOcr ==
    \/ ScanBegin
    \/ ScanSample
    \/ ScanReturn

SpecOcr == InitOcr /\ [][NextOcr]_vars

\* ------------------------------------------------------------------ the three subtitle sources

\* extract_embedded_subtitles on its own: srt_file is what the demux would
\* write to the temporary file
InitEmbedded ==
    /\ pc = "probe"
    /\ args = NoArgs
    /\ stderr_lines = << >>
    /\ shot_timestamps = << >>
    /\ srt_file \in SeqsUpTo(SrtBlocks, MaxBlocks)
    /\ subtitles = << >>
    /\ all_timestamps = << >>
    /\ sorted_data = << >>
    /\ i = 0
    /\ frames = << >>
    /\ out_dir = AbsentDir
    /\ exit_code = NoExit
    /\ ScanIdle
    /\ history = << >>
    /\ reader = NoRequest
    /\ PeerIdle

\* the probe, the demux when a stream was found, parse_srt of the temporary file
ExtractEmbedded ==
    /\ pc = "probe"
    /\ \E has_stream \in BOOLEAN, temp_exists \in BOOLEAN :
          /\ subtitles' = extract_embedded_subtitles(has_stream, temp_exists, srt_file)
          /\ history' = history \o embedded_steps(has_stream, temp_exists)
    /\ pc' = "extracted"
    /\ UNCHANGED << args, stderr_lines, shot_timestamps, srt_file, all_timestamps,
                    sorted_data, i, frames, out_dir, exit_code, scan_vars, reader, peer_vars >>

\* one call of one of the three sources: parse_srt, the OCR scan, the embedded
\* extractor
InitSources == InitSrt \/ InitOcr \/ InitEmbedded

NextSources ==
    \/ ParseSrt
    \/ ScanBegin
    \/ ScanSample
    \/ ScanReturn
    \/ ExtractEmbedded

SpecSources == InitSources /\ [][NextSources]_vars

\* ------------------------------------------------------------------ the capture calls of both scripts

\* a run of extract_shots_subtitles.py, or a scan of extract_ocr_subtitles.py
InitCaptures == Init \/ InitOcr

NextCaptures ==
    \/ Next
    \/ NextOcr

SpecCaptures == InitCaptures /\ [][NextCaptures]_vars

\* ------------------------------------------------------------------ the timecode on its own

\* a shot event at t
TimecodeEvent(t) == [timestamp |-> t, type |-> "shot", subtitle |-> None]

\* timelines of one or two events at the timestamps of TimecodeTimes
TimecodeTimelines ==
    { << TimecodeEvent(t) >> : t \in TimecodeTimes }
      \cup { << TimecodeEvent(q[1]), TimecodeEvent(q[2]) >> :
              q \in { r \in TimecodeTimes \X TimecodeTimes : r[1] < r[2] } }

\* extract_frames on a timeline, every thumbnail written
InitTimecode ==
    /\ pc = "timecode"
    /\ args = NoArgs
    /\ stderr_lines = << >>
    /\ shot_timestamps = << >>
    /\ srt_file = << >>
    /\ subtitles = << >>
    /\ all_timestamps = << >>
    /\ sorted_data \in TimecodeTimelines
    /\ i = 0
    /\ frames = << >>
    /\ out_dir = [make_dirs(AbsentDir) EXCEPT !.thumbs = DOMAIN sorted_data]
    /\ exit_code = NoExit
    /\ ScanIdle
    /\ history = << >>
    /\ reader = NoRequest
    /\ PeerIdle

\* the body of "if thumb_path.exists()" for the next event
RenderTimecode ==
    /\ pc = "timecode"
    /\ frames' = record_frame(frames, out_dir, i + 1, sorted_data[i + 1])
    /\ i' = i + 1
    /\ pc' = IF i + 1 < Len(sorted_data) THEN "timecode" ELSE "rendered"
    /\ UNCHANGED << args, stderr_lines, shot_timestamps, srt_file, subtitles,
                    all_timestamps, sorted_data, out_dir, exit_code, scan_vars,
                    history, reader, peer_vars >>

NextTimecode == RenderTimecode

SpecTimecode == InitTimecode /\ [][NextTimecode]_vars

\* ------------------------------------------------------------------ two runs on one output directory

\* Two runs of extract_shots_subtitles.py with the same --output, each with
\* its timeline built, from the clearing of the output directory to the
\* manifest.  The first run is the run of the other specifications, with a
\* timeline of one or two shots; the second has one shot and keeps its
\* position, loop index and frame records in the variable other.

\* the shot lists of the first run
TwoRunShots == { << 0 >>, << 0, Ms >> }

\* the timeline of the second run
OtherTimeline == sort_timeline(merge_shots(<< >>, << 0 >>))

InitTwoRuns ==
    /\ pc = "clear"
    /\ args = [NoArgs EXCEPT !.shots_only = TRUE]
    /\ stderr_lines = << >>
    /\ shot_timestamps \in TwoRunShots
    /\ srt_file = << >>
    /\ subtitles = << >>
    /\ all_timestamps = merge_shots(<< >>, shot_timestamps)
    /\ sorted_data = sort_timeline(all_timestamps)
    /\ i = 0
    /\ frames = << >>
    /\ out_dir \in { AbsentDir, StaleDir }
    /\ exit_code = NoExit
    /\ ScanIdle
    /\ history = << Step("detect_shots", 0, TRUE), Step("sort", 0, TRUE) >>
    /\ reader = NoRequest
    /\ other = [pc |-> "clear", i |-> 0, frames |-> << >>]
    /\ temp_srt = NoTempFile

\* second run: if output_dir.exists(): shutil.rmtree(output_dir)
OtherClearOutput ==
    /\ other.pc = "clear"
    /\ out_dir' = clear_output(out_dir)
    /\ other' = [other EXCEPT !.pc = "mkdir"]
    /\ history' = Append(history, Step("other_rmtree", 0, out_dir.exists))
    /\ UNCHANGED << pc, args, stderr_lines, shot_timestamps, srt_file, subtitles,
                    all_timestamps, sorted_data, i, frames, exit_code, scan_vars,
                    reader, temp_srt >>

\* second run: extract_frames up to its loop
OtherFramesBegin ==
    /\ other.pc = "mkdir"
    /\ out_dir' = make_dirs(out_dir)
    /\ other' = [other EXCEPT !.pc = "thumb", !.i = 0, !.frames = << >>]
    /\ history' = Append(history, Step("other_mkdir", 0, TRUE))
    /\ UNCHANGED << pc, args, stderr_lines, shot_timestamps, srt_file, subtitles,
                    all_timestamps, sorted_data, i, frames, exit_code, scan_vars,
                    reader, temp_srt >>

\* second run: subprocess.run(cmd_thumb), with -y: an existing file of the
\* same name is overwritten
OtherCaptureThumb ==
    /\ other.pc = "thumb"
    /\ \E ok \in BOOLEAN :
          /\ out_dir' = IF ok /\ out_dir.exists
                        THEN [out_dir EXCEPT !.thumbs = @ \cup { other.i + 1 }]
                        ELSE out_dir
          /\ history' = Append(history, Step("other_thumb", other.i + 1, ok /\ out_dir.exists))
    /\ other' = [other EXCEPT !.pc = "full"]
    /\ UNCHANGED << pc, args, stderr_lines, shot_timestamps, srt_file, subtitles,
                    all_timestamps, sorted_data, i, frames, exit_code, scan_vars,
                    reader, temp_srt >>

\* second run: subprocess.run(cmd_full)
OtherCaptureFull ==
    /\ other.pc = "full"
    /\ \E ok \in BOOLEAN :
          /\ out_dir' = IF ok /\ out_dir.exists
                        THEN [out_dir EXCEPT !.fulls = @ \cup { other.i + 1 }]
                        ELSE out_dir
          /\ history' = Append(history, Step("other_full", other.i + 1, ok /\ out_dir.exists))
    /\ other' = [other EXCEPT !.pc = "record"]
    /\ UNCHANGED << pc, args, stderr_lines, shot_timestamps, srt_file, subtitles,
                    all_timestamps, sorted_data, i, frames, exit_code, scan_vars,
                    reader, temp_srt >>

\* second run: if thumb_path.exists(): frames.append(frame_data); next event
OtherRecordFrame ==
    /\ other.pc = "record"
    /\ other' = [other EXCEPT
                   !.frames = record_frame(other.frames, out_dir, other.i + 1,
                                           OtherTimeline[other.i + 1]),
                   !.i = other.i + 1,
                   !.pc = IF other.i + 1 < Len(OtherTimeline) THEN "thumb" ELSE "manifest"]
    /\ UNCHANGED << pc, args, stderr_lines, shot_timestamps, srt_file, subtitles,
                    all_timestamps, sorted_data, i, frames, out_dir, exit_code,
                    scan_vars, history, reader, temp_srt >>

\* second run: the manifest document, json.dump to manifest.json
OtherWriteManifest ==
    /\ other.pc = "manifest"
    /\ IF out_dir.exists
       THEN /\ out_dir' = [out_dir EXCEPT
                             !.manifest = [make_manifest(other.frames)
                                           EXCEPT !.movie_name = "other"]]
            /\ other' = [other EXCEPT !.pc = "done"]
       ELSE /\ out_dir' = out_dir
            /\ other' = [other EXCEPT !.pc = "crashed"]
    /\ history' = Append(history, Step("other_manifest", 0, out_dir.exists))
    /\ UNCHANGED << pc, args, stderr_lines, shot_timestamps, srt_file, subtitles,
                    all_timestamps, sorted_data, i, frames, exit_code, scan_vars,
                    reader, temp_srt >>

NextTwoRuns ==
    \/ MainClearOutput
    \/ ExtractFramesBegin
    \/ CaptureThumb
    \/ CaptureFull
    \/ RecordFrame
    \/ MainWriteManifest
    \/ OtherClearOutput
    \/ OtherFramesBegin
    \/ OtherCaptureThumb
    \/ OtherCaptureFull
    \/ OtherRecordFrame
    \/ OtherWriteManifest

SpecTwoRuns == InitTwoRuns /\ [][NextTwoRuns]_vars

\* ------------------------------------------------------------------ two embedded extractions

\* Two calls of extract_embedded_subtitles on different videos at the same
\* time.  Both use the path /tmp/temp_subs.srt.  The first call is that of the
\* run of the other specifications and its video carries the stream srt_file;
\* the second keeps its position and its result in the variable other.

ThisVideo == 1
OtherVideo == 2

\* the subtitle stream of the first video
ThisStreams ==
    { << >>,
      << Block(TimeLine(0, 0, 0, 0), << << "a" >> >>) >>,
      << Block(TimeLine(0, 0, 0, 0), << << "a" >> >>),
         Block(TimeLine(0, 0, 1, 0), << << "b" >> >>) >> }

\* the subtitle stream of the second video
OtherStream == << Block(TimeLine(0, 0, 1, 500), << << "b" >> >>) >>

\* ffmpeg -i video -map 0:s:0 -f srt /tmp/temp_subs.srt -y: the file holds the
\* stream of this video, whatever it held before; a demux that fails leaves
\* the path as it was
demux_to_temp(file, video, blocks, wrote) ==
    IF wrote THEN [exists |-> TRUE, video |-> video, blocks |-> blocks] ELSE file

InitTwoEmbedded ==
    /\ pc = "probe"
    /\ args = NoArgs
    /\ stderr_lines = << >>
    /\ shot_timestamps = << >>
    /\ srt_file \in ThisStreams
    /\ subtitles = << >>
    /\ all_timestamps = << >>
    /\ sorted_data = << >>
    /\ i = 0
    /\ frames = << >>
    /\ out_dir = AbsentDir
    /\ exit_code = NoExit
    /\ ScanIdle
    /\ history = << >>
    /\ reader = NoRequest
    /\ other = [pc |-> "probe", subtitles |-> << >>]
    /\ temp_srt = NoTempFile

\* result = subprocess.run(probe_cmd); if not result.stdout.strip(): return []
EmbeddedProbe ==
    /\ pc = "probe"
    /\ \E has_stream \in BOOLEAN :
          /\ pc' = IF has_stream THEN "demux" ELSE "extracted"
          /\ history' = Append(history, Step("ffprobe", ThisVideo, has_stream))
    /\ subtitles' = << >>
    /\ UNCHANGED << exit_code, temp_srt >>
    /\ UNCHANGED << args, stderr_lines, shot_timestamps, srt_file, all_timestamps,
                    sorted_data, i, frames, out_dir, scan_vars, reader, other >>

\* subprocess.run(extract_cmd)
EmbeddedDemux ==
    /\ pc = "demux"
    /\ \E wrote \in BOOLEAN :
          /\ temp_srt' = demux_to_temp(temp_srt, ThisVideo, srt_file, wrote)
          /\ history' = Append(history, Step("demux", ThisVideo, wrote))
    /\ pc' = "exists"
    /\ UNCHANGED << subtitles, exit_code >>
    /\ UNCHANGED << args, stderr_lines, shot_timestamps, srt_file, all_timestamps,
                    sorted_data, i, frames, out_dir, scan_vars, reader, other >>

\* if temp_srt.exists(): ... else: return []
EmbeddedExists ==
    /\ pc = "exists"
    /\ pc' = IF temp_srt.exists THEN "parse" ELSE "extracted"
    /\ UNCHANGED << subtitles, exit_code, temp_srt, history >>
    /\ UNCHANGED << args, stderr_lines, shot_timestamps, srt_file, all_timestamps,
                    sorted_data, i, frames, out_dir, scan_vars, reader, other >>

\* subtitles = parse_srt(temp_srt): open() raises FileNotFoundError when the
\* path is gone; otherwise the file is read whole, whoever wrote it
EmbeddedParse ==
    /\ pc = "parse"
    /\ IF temp_srt.exists
       THEN /\ subtitles' = parse_srt(temp_srt.blocks)
            /\ history' = Append(history, Step("parse_temp", temp_srt.video, TRUE))
            /\ pc' = "unlink"
            /\ exit_code' = exit_code
       ELSE /\ subtitles' = subtitles
            /\ history' = Append(history, Step("parse_temp", ThisVideo, FALSE))
            /\ pc' = "crashed"
            /\ exit_code' = 1
    /\ UNCHANGED temp_srt
    /\ UNCHANGED << args, stderr_lines, shot_timestamps, srt_file, all_timestamps,
                    sorted_data, i, frames, out_dir, scan_vars, reader, other >>

\* temp_srt.unlink(); return subtitles: unlink raises FileNotFoundError when
\* the path is gone
EmbeddedUnlink ==
    /\ pc = "unlink"
    /\ IF temp_srt.exists
       THEN /\ temp_srt' = NoTempFile
            /\ history' = Append(history, Step("unlink_temp", temp_srt.video, TRUE))
            /\ pc' = "extracted"
            /\ exit_code' = exit_code
       ELSE /\ temp_srt' = temp_srt
            /\ history' = Append(history, Step("unlink_temp", ThisVideo, FALSE))
            /\ pc' = "crashed"
            /\ exit_code' = 1
    /\ UNCHANGED subtitles
    /\ UNCHANGED << args, stderr_lines, shot_timestamps, srt_file, all_timestamps,
                    sorted_data, i, frames, out_dir, scan_vars, reader, other >>

\* second call: the probe
OtherProbe ==
    /\ other.pc = "probe"
    /\ \E has_stream \in BOOLEAN :
          /\ other' = [other EXCEPT !.pc = IF has_stream THEN "demux" ELSE "extracted"]
          /\ history' = Append(history, Step("other_ffprobe", OtherVideo, has_stream))
    /\ UNCHANGED temp_srt
    /\ UNCHANGED << pc, args, stderr_lines, shot_timestamps, srt_file, subtitles,
                    all_timestamps, sorted_data, i, frames, out_dir, exit_code,
                    scan_vars, reader >>

\* second call: the demux
OtherDemux ==
    /\ other.pc = "demux"
    /\ \E wrote \in BOOLEAN :
          /\ temp_srt' = demux_to_temp(temp_srt, OtherVideo, OtherStream, wrote)
          /\ history' = Append(history, Step("other_demux", OtherVideo, wrote))
    /\ other' = [other EXCEPT !.pc = "exists"]
    /\ UNCHANGED << pc, args, stderr_lines, shot_timestamps, srt_file, subtitles,
                    all_timestamps, sorted_data, i, frames, out_dir, exit_code,
                    scan_vars, reader >>

\* second call: if temp_srt.exists()
OtherExists ==
    /\ other.pc = "exists"
    /\ other' = [other EXCEPT !.pc = IF temp_srt.exists THEN "parse" ELSE "extracted"]
    /\ UNCHANGED << temp_srt, history >>
    /\ UNCHANGED << pc, args, stderr_lines, shot_timestamps, srt_file, subtitles,
                    all_timestamps, sorted_data, i, frames, out_dir, exit_code,
                    scan_vars, reader >>

\* second call: parse_srt(temp_srt)
OtherParse ==
    /\ other.pc = "parse"
    /\ IF temp_srt.exists
       THEN /\ other' = [other EXCEPT !.pc = "unlink",
                                      !.subtitles = parse_srt(temp_srt.blocks)]
            /\ history' = Append(history, Step("other_parse_temp", temp_srt.video, TRUE))
       ELSE /\ other' = [other EXCEPT !.pc = "crashed"]
            /\ history' = Append(history, Step("other_parse_temp", OtherVideo, FALSE))
    /\ UNCHANGED temp_srt
    /\ UNCHANGED << pc, args, stderr_lines, shot_timestamps, srt_file, subtitles,
                    all_timestamps, sorted_data, i, frames, out_dir, exit_code,
                    scan_vars, reader >>

\* second call: temp_srt.unlink()
OtherUnlink ==
    /\ other.pc = "unlink"
    /\ IF temp_srt.exists
       THEN /\ temp_srt' = NoTempFile
            /\ other' = [other EXCEPT !.pc = "extracted"]
            /\ history' = Append(history, Step("other_unlink_temp", temp_srt.video, TRUE))
       ELSE /\ temp_srt' = temp_srt
            /\ other' = [other EXCEPT !.pc = "crashed"]
            /\ history' = Append(history, Step("other_unlink_temp", OtherVideo, FALSE))
    /\ UNCHANGED << pc, args, stderr_lines, shot_timestamps, srt_file, subtitles,
                    all_timestamps, sorted_data, i, frames, out_dir, exit_code,
                    scan_vars, reader >>

NextTwoEmbedded ==
    \/ EmbeddedProbe
    \/ EmbeddedDemux
    \/ EmbeddedExists
    \/ EmbeddedParse
    \/ EmbeddedUnlink
    \/ OtherProbe
    \/ OtherDemux
    \/ OtherExists
    \/ OtherParse
    \/ OtherUnlink

SpecTwoEmbedded == InitTwoEmbedded /\ [][NextTwoEmbedded]_vars

\* ------------------------------------------------------------------ a request during a run

\* A pipeline run on static/frames/<movie> and one GET /<movie> request, which
\* may arrive at any moment of the run.  The run detects shots only; the
\* manifest write is taken in its two parts, and the run may be killed.
InitRead ==
    /\ Init
    /\ args = [NoArgs EXCEPT !.shots_only = TRUE]

\* with open(manifest_path, 'w') as f: the file is created or emptied
ManifestOpen ==
    /\ pc = "manifest"
    /\ out_dir' = [out_dir EXCEPT !.manifest = TruncatedManifest]
    /\ pc' = "dump"
    /\ UNCHANGED << args, stderr_lines, shot_timestamps, srt_file, subtitles,
                    all_timestamps, sorted_data, i, frames, exit_code, scan_vars,
                    history, reader, peer_vars >>

\* json.dump(manifest, f, indent=2) and the close of the with block
ManifestDump ==
    /\ pc = "dump"
    /\ out_dir' = [out_dir EXCEPT !.manifest = make_manifest(frames)]
    /\ pc' = "done"
    /\ exit_code' = 0
    /\ history' = Append(history, Step("manifest", 0, TRUE))
    /\ UNCHANGED << args, stderr_lines, shot_timestamps, srt_file, subtitles,
                    all_timestamps, sorted_data, i, frames, scan_vars, reader, peer_vars >>

\* the run is killed where it stands; what it wrote so far stays on disk
Crash ==
    /\ pc \notin { "done", "exit", "crashed" }
    /\ pc' = "crashed"
    /\ UNCHANGED << args, stderr_lines, shot_timestamps, srt_file, subtitles,
                    all_timestamps, sorted_data, i, frames, out_dir, exit_code,
                    scan_vars, history, reader, peer_vars >>

\* if os.path.exists(manifest_path): ... else return the empty answer
ReaderCheck ==
    /\ reader.pc = "idle"
    /\ reader' = IF manifest_exists(out_dir)
                 THEN [reader EXCEPT !.pc = "checked", !.exists = TRUE]
                 ELSE [reader EXCEPT !.pc = "returned", !.result = EmptyShape]
    /\ UNCHANGED << pc, args, stderr_lines, shot_timestamps, srt_file, subtitles,
                    all_timestamps, sorted_data, i, frames, out_dir, exit_code,
                    scan_vars, history, peer_vars >>

\* open, json.load, return: on the file as it is now, not as it was tested
ReaderLoad ==
    /\ reader.pc = "checked"
    /\ reader' = [reader EXCEPT !.pc = json_load(out_dir).pc,
                                !.result = json_load(out_dir).result,
                                !.error = json_load(out_dir).error]
    /\ UNCHANGED << pc, args, stderr_lines, shot_timestamps, srt_file, subtitles,
                    all_timestamps, sorted_data, i, frames, out_dir, exit_code,
                    scan_vars, history, peer_vars >>

NextRead ==
    \/ MainCheckVideo
    \/ MainDetectShots
    \/ MainGetSubtitles
    \/ MainSort
    \/ MainClearOutput
    \/ ExtractFramesBegin
    \/ CaptureThumb
    \/ CaptureFull
    \/ RecordFrame
    \/ ManifestOpen
    \/ ManifestDump
    \/ Crash
    \/ ReaderCheck
    \/ ReaderLoad

SpecRead == InitRead /\ [][NextRead]_vars

\* ================================================================== claims

\* the timeline of the run has been built
Merged == pc \in { "clear", "mkdir", "thumb", "full", "record", "manifest", "done" }

\* detect_shots of the extract_shots.py run has returned
Detected == pc \in { "check", "clear", "thumb", "full", "record", "manifest", "done" }

StrictlyIncreasing(s) == \A j, k \in DOMAIN s : j < k => s[j] < s[k]

SubtitleTimes == { subtitles[k][1] : k \in DOMAIN subtitles }

\* C1 (as claimed): in the manifest of a completed run the frame numbers are
\* exactly 1..total_frames, and number and timestamp increase strictly along
\* the frame list.
C1_FrameNumbersContiguous ==
    pc = "done" =>
        LET m  == out_dir.manifest
            fs == m.frames
        IN  /\ { fs[k].number : k \in DOMAIN fs } = 1..m.total_frames
            /\ \A j, k \in DOMAIN fs :
                  j < k => /\ fs[j].number < fs[k].number
                           /\ fs[j].timestamp < fs[k].timestamp

\* C2 (as claimed): once detect_shots has returned only the seeded 0.0 and the
\* run is past its check, the run has exited with code 1; it never clears,
\* extracts or writes a manifest.
C2_ZeroShotsIsFatal ==
    (Detected /\ pc # "check" /\ shot_timestamps = << 0 >>) =>
        (pc = "exit" /\ exit_code = 1)

\* C3 (as claimed): for every shot timestamp t and every subtitle event (t, text)
\* the timeline holds exactly one event at t, of type shot+subtitle, whose
\* subtitle is text.
C3_ShotAndSubtitleCollapse ==
    Merged =>
        \A s \in DOMAIN shot_timestamps, k \in DOMAIN subtitles :
            subtitles[k][1] = shot_timestamps[s] =>
                LET at == { e \in DOMAIN sorted_data :
                              sorted_data[e].timestamp = shot_timestamps[s] }
                IN  /\ Cardinality(at) = 1
                    /\ \A e \in at : /\ sorted_data[e].type = "shot+subtitle"
                                     /\ sorted_data[e].subtitle = subtitles[k][2]

\* C4: the merged timeline has as many events as there are distinct timestamps
\* in the shot list and the subtitle list together, hence at most the sum of
\* the two lengths.
C4_MergedLength ==
    Merged =>
        /\ Len(sorted_data) = Cardinality(Range(shot_timestamps) \cup SubtitleTimes)
        /\ Len(sorted_data) <= Len(shot_timestamps) + Len(subtitles)

\* C4 witness: a merged timeline whose subtitle list repeats a timestamp that
\* is also a shot, next to another shot.
C4_Witness ==
    /\ Merged
    /\ Len(shot_timestamps) >= 2
    /\ \E j, k \in DOMAIN subtitles :
          /\ j # k
          /\ subtitles[j][1] = subtitles[k][1]
          /\ subtitles[j][1] \in Range(shot_timestamps)
    /\ Len(sorted_data) < Len(shot_timestamps) + Len(subtitles)

\* C5: the timeline handed to extract_frames is strictly increasing by
\* timestamp.
C5_TimelineStrictlyIncreasing ==
    Merged =>
        \A j, k \in DOMAIN sorted_data :
            j < k => sorted_data[j].timestamp < sorted_data[k].timestamp

\* C5 witness: extraction starts on a timeline of three or more events whose
\* subtitle source returned its events in descending order.
C5_Witness ==
    /\ pc = "thumb"
    /\ Len(subtitles) = 2
    /\ subtitles[1][1] > subtitles[2][1]
    /\ Len(sorted_data) >= 3

\* C6: what detect_shots returns has no duplicates, is sorted ascending and
\* contains 0.0, whatever the scene tool printed.
C6_DetectShotsSortedUnique ==
    Detected =>
        /\ StrictlyIncreasing(shot_timestamps)
        /\ 0 \in Range(shot_timestamps)

\* C6 witness: detect_shots has returned on an output that repeats a pts_time
\* value and lists a larger value before a smaller one.
C6_Witness ==
    /\ pc = "check"
    /\ Len(stderr_lines) = 2
    /\ stderr_lines[1].kind = "pts"
    /\ stderr_lines[2].kind = "pts"
    /\ stderr_lines[1].time >= stderr_lines[2].time
    /\ stderr_lines[2].time > 0

\* the events appended at the samples, in sample order
RECURSIVE EmittedEvents(_)
EmittedEvents(ss) ==
    IF ss = << >> THEN << >>
    ELSE (IF Head(ss).emitted THEN << << Head(ss).time, Head(ss).text >> >> ELSE << >>)
         \o EmittedEvents(Tail(ss))

\* C7: an event is appended at a sample only when its text is non-empty and
\* differs from the text of the sample just before it; two consecutive samples
\* of equal text never both append; the first sample of a run of equal
\* non-empty texts (at the start, or after a sample of another text) appends
\* one; and the list returned holds the appended events and nothing else.
C7_OcrEdgeTriggered ==
    /\ \A k \in DOMAIN samples :
          samples[k].emitted =>
              /\ samples[k].frame
              /\ Len(samples[k].text) > 0
              /\ (k > 1 /\ samples[k - 1].frame) => samples[k - 1].text # samples[k].text
    /\ \A k \in DOMAIN samples :
          (k > 1 /\ samples[k].frame /\ samples[k - 1].frame
                 /\ samples[k].text = samples[k - 1].text) =>
              ~(samples[k].emitted /\ samples[k - 1].emitted)
    /\ \A k \in DOMAIN samples :
          (/\ samples[k].frame
           /\ Len(samples[k].text) > 0
           /\ (k = 1 \/ (samples[k - 1].frame /\ samples[k - 1].text # samples[k].text)))
              => samples[k].emitted
    /\ subtitle_changes = EmittedEvents(samples)

\* C7 witness: samples A, A, B (the third another non-empty text) gave two
\* events, at the first and the third sample.
C7_Witness ==
    /\ Len(samples) >= 3
    /\ samples[1].frame /\ samples[2].frame /\ samples[3].frame
    /\ Len(samples[1].text) > 0
    /\ samples[2].text = samples[1].text
    /\ Len(samples[3].text) > 0
    /\ samples[3].text # samples[2].text
    /\ Len(subtitle_changes) = 2
    /\ subtitle_changes[1][1] = samples[1].time
    /\ subtitle_changes[2][1] = samples[3].time

\* a block with an index line, a time line the pattern matches, and text lines
WellFormed(b) == line_count(b) >= 3 /\ b.time.kind = "time"

\* the well-formed blocks of the file whose text is x, by position
Carriers(x) ==
    { k \in DOMAIN srt_file : WellFormed(srt_file[k]) /\ block_text(srt_file[k]) = x }

StartOf(k) == start_time_of(srt_file[k].time)

\* the non-empty texts carried by well-formed blocks at two or more start times
RepeatedTexts ==
    { x \in { block_text(srt_file[k]) : k \in DOMAIN srt_file } :
        /\ Len(x) > 0
        /\ Cardinality({ StartOf(k) : k \in Carriers(x) }) >= 2 }

EventsWith(x) == { e \in DOMAIN subtitles : subtitles[e][2] = x }

\* C8 (as claimed): a text carried by blocks at different start times gives
\* exactly one event, at the earliest of those start times.
C8_EarliestStartKept ==
    pc = "parsed" =>
        \A x \in RepeatedTexts :
            /\ Cardinality(EventsWith(x)) = 1
            /\ \A e \in EventsWith(x) :
                  subtitles[e][1] = Min({ StartOf(k) : k \in Carriers(x) })

\* C8 (amended): a text carried by blocks at different start times gives
\* exactly one event, at the start time of the first of those blocks in file
\* order.
C8_FirstInFileKept ==
    pc = "parsed" =>
        \A x \in RepeatedTexts :
            /\ Cardinality(EventsWith(x)) = 1
            /\ \A e \in EventsWith(x) :
                  subtitles[e][1] = StartOf(Min(Carriers(x)))

\* C8 witness: a parsed file in which a text stands first in a later block
\* and then in an earlier one.
C8_Witness ==
    /\ pc = "parsed"
    /\ \E x \in RepeatedTexts :
          /\ StartOf(Min(Carriers(x))) > Min({ StartOf(k) : k \in Carriers(x) })
          /\ Cardinality(EventsWith(x)) = 1

\* C9: a frame record of the manifest has the subtitle field exactly when its
\* type is subtitle or shot+subtitle, and the field then holds a non-empty text.
C9_SubtitleFieldIffType ==
    \A k \in DOMAIN out_dir.manifest.frames :
        LET f == out_dir.manifest.frames[k]
        IN  /\ ("subtitle" \in DOMAIN f) <=> (f.type \in { "subtitle", "shot+subtitle" })
            /\ ("subtitle" \in DOMAIN f) => (f.subtitle # None /\ Len(f.subtitle) > 0)

\* C9 witness: a written manifest with a record of each of the three types.
C9_Witness ==
    /\ pc = "done"
    /\ \A t \in { "shot", "subtitle", "shot+subtitle" } :
          \E k \in DOMAIN out_dir.manifest.frames : out_dir.manifest.frames[k].type = t

\* the number of manifest records whose type is in S
RecordsOfType(S) ==
    Cardinality({ k \in DOMAIN out_dir.manifest.frames :
                    out_dir.manifest.frames[k].type \in S })

\* C10: in the manifest a run wrote, total_frames is the number of records,
\* shot_frames the number of shot and shot+subtitle records, subtitle_frames
\* the number of subtitle and shot+subtitle records, so that
\* shot_frames + subtitle_frames - #(shot+subtitle) = total_frames.
C10_ManifestCounts ==
    pc = "done" =>
        LET m == out_dir.manifest
        IN  /\ m.total_frames = Len(m.frames)
            /\ m.shot_frames = RecordsOfType({ "shot", "shot+subtitle" })
            /\ m.subtitle_frames = RecordsOfType({ "subtitle", "shot+subtitle" })
            /\ m.shot_frames + m.subtitle_frames - RecordsOfType({ "shot+subtitle" })
                  = m.total_frames

\* C10 witness: a manifest written after a failed extraction, with a
\* shot+subtitle record and a subtitle record.
C10_Witness ==
    /\ pc = "done"
    /\ Len(out_dir.manifest.frames) < Len(sorted_data)
    /\ RecordsOfType({ "shot+subtitle" }) >= 1
    /\ RecordsOfType({ "subtitle" }) >= 1

\* the request has ended with an exception instead of an answer
ReadFailed == reader.pc = "raised"

\* C11: a read of the manifest never fails, whatever the run on the same movie
\* is doing: the request ends with a complete document or with the empty answer.
C11_ReadNeverFails == ~ReadFailed

\* C12: the request leaves the output directory as it is; it answers with the
\* empty shape when manifest.json does not exist, and when it answers after the
\* existence test passed, the answer is the document on disk, unchanged; while
\* a whole document is on disk the request does not raise.
C12_ReadReturnsStored ==
    [][ reader' # reader =>
          /\ out_dir' = out_dir
          /\ (reader.pc = "idle" /\ ~manifest_exists(out_dir) =>
                 reader'.pc = "returned" /\ reader'.result = EmptyShape)
          /\ (manifest_complete(out_dir) =>
                 /\ reader'.pc # "raised"
                 /\ reader'.pc = "returned" => reader'.result = out_dir.manifest)
      ]_vars

\* a request answered with the manifest of the run that has just written it
C12_Witness ==
    /\ reader.pc = "returned"
    /\ reader.exists
    /\ pc = "done"
    /\ reader.result = out_dir.manifest
    /\ Len(reader.result.frames) >= 1

\* C13: a run whose video file does not exist takes one step only, the exit
\* with code 1: it calls no external tool (its history stays empty) and leaves
\* the output directory, the manifest of an earlier run included, as it was.
C13_MissingVideoExits ==
    [][ ~args.video_exists =>
          /\ pc = "start"
          /\ pc' = "exit"
          /\ exit_code' = 1
          /\ history' = << >>
          /\ out_dir' = out_dir ]_vars

\* the run has ended on the missing video, next to the files of an earlier run
C13_Witness ==
    /\ ~args.video_exists
    /\ pc = "exit"
    /\ exit_code = 1
    /\ out_dir = StaleDir

\* the frame numbers whose file the steps of kind op have written in this run
Written(op) ==
    { history[k].n : k \in { j \in DOMAIN history : history[j].op = op /\ history[j].ok } }

\* the output directory has been cleared by this run
Cleared == pc \in { "mkdir", "thumb", "full", "record", "manifest", "done" }

\* C14: the output directory is destroyed before any frame of the run is
\* written (every capture step comes after the rmtree step), so from then on
\* the thumbnails and full images present are exactly those this run wrote,
\* and after the run the manifest is the one of this run, each of its
\* entries naming a thumbnail of this run: nothing of an earlier run survives.
C14_OnlyLastRunSurvives ==
    /\ \A k \in DOMAIN history :
          history[k].op \in { "thumb", "full" } =>
             \E j \in 1..(k - 1) : history[j].op = "rmtree"
    /\ Cleared =>
          /\ out_dir.thumbs = Written("thumb")
          /\ out_dir.fulls = Written("full")
          /\ pc # "done" => out_dir.manifest = NoManifest
    /\ pc = "done" =>
          /\ out_dir.manifest.movie_name = "movie"
          /\ out_dir.manifest.frames = frames
          /\ \A k \in DOMAIN frames : frames[k].number \in Written("thumb")

\* a completed run over the files of an earlier one, which wrote fewer files
\* than the earlier run had left
C14_Witness ==
    /\ pc = "done"
    /\ \E k \in DOMAIN history : history[k] = Step("rmtree", 0, TRUE)
    /\ Written("thumb") # {}
    /\ out_dir.thumbs # StaleDir.thumbs
    /\ out_dir.fulls # StaleDir.fulls

\* C15: a run given both --shots-only and --subs-only is rejected: it never
\* clears the output directory, never extracts a frame, never writes a
\* manifest, and does not end as a successful run.
C15_BothFlagsRejected ==
    (args.shots_only /\ args.subs_only) =>
        /\ \A k \in DOMAIN history :
              history[k].op \notin { "rmtree", "mkdir", "thumb", "full", "manifest" }
        /\ pc # "done"

\* a subtitle source has returned its list
Returned == pc \in { "parsed", "scanned", "extracted" }

\* every event of the returned list has a text that is not empty
TextsNonEmpty == \A e \in DOMAIN subtitles : Truthy(subtitles[e][2])

\* the start times of the well-formed blocks do not decrease along the file
Chronological ==
    \A j, k \in DOMAIN srt_file :
        (j < k /\ WellFormed(srt_file[j]) /\ WellFormed(srt_file[k])) => StartOf(j) <= StartOf(k)

NoStream == \E k \in DOMAIN history : history[k] = Step("ffprobe", 0, FALSE)

\* C17: when the probe reports no subtitle stream the embedded extractor
\* returns the empty list and the run holds no demux step; the timeline merged
\* from the N shot timestamps and that list has exactly N events, the shots in
\* order, each of kind 'shot' and without subtitle text.
C17_NoStreamShotsOnly ==
    NoStream =>
        /\ subtitles = << >>
        /\ \A k \in DOMAIN history : history[k].op # "demux"
        /\ Merged =>
              /\ Len(sorted_data) = Len(shot_timestamps)
              /\ \A e \in DOMAIN sorted_data :
                    /\ sorted_data[e].timestamp = shot_timestamps[e]
                    /\ sorted_data[e].type = "shot"
                    /\ sorted_data[e].subtitle = None

\* a finished run of two or more shots whose probe found no stream
C17_Witness ==
    /\ NoStream
    /\ pc = "done"
    /\ Len(shot_timestamps) >= 2
    /\ Len(sorted_data) = Len(shot_timestamps)

\* the capture steps of one kind the run has taken, in order
Calls(op) == SelectSeq(history, LAMBDA h : h.op = op)

\* extract_frames has been entered
Extracting == pc \in { "thumb", "full", "record", "manifest" }

\* what holds at every moment of the extraction, whatever calls have failed:
\* the run has not exited, the k-th thumbnail call and the k-th full call are
\* those of event k, and a finished run has made one of each for every event
\* and holds in its manifest a record for exactly the events whose thumbnail
\* file exists
LoopVisitsAll ==
    /\ (\E k \in DOMAIN history : history[k].op = "mkdir") => pc # "exit"
    /\ \A k \in DOMAIN Calls("thumb") : Calls("thumb")[k].n = k
    /\ \A k \in DOMAIN Calls("full") : Calls("full")[k].n = k
    /\ pc = "done" =>
          /\ Len(Calls("thumb")) = Len(sorted_data)
          /\ Len(Calls("full")) = Len(sorted_data)
          /\ out_dir.manifest.frames = frames
          /\ { frames[k].number : k \in DOMAIN frames } = out_dir.thumbs
          /\ Len(frames) = Cardinality(out_dir.thumbs)
          /\ \A k \in DOMAIN frames :
                frames[k].timestamp = sorted_data[frames[k].number].timestamp

\* C18: per-frame capture failures never abort the run: for every pattern of
\* thumbnail and full-image failures the loop visits every event once, in
\* order, the manifest is eventually written, and it holds a record for
\* exactly the events whose thumbnail file exists after their capture calls.
C18_FailuresNeverAbort ==
    /\ []LoopVisitsAll
    /\ (Extracting ~> pc = "done")

\* a finished run of three events: the thumbnail of the first failed, the full
\* image of the second failed, and the manifest holds records two and three
C18_Witness ==
    /\ pc = "done"
    /\ Len(sorted_data) = 3
    /\ out_dir.thumbs = { 2, 3 }
    /\ out_dir.fulls = { 1, 3 }
    /\ Len(out_dir.manifest.frames) = 2

\* the frame numbers that have a record
Recorded == { frames[k].number : k \in DOMAIN frames }

\* C19: an event that has been through its two capture calls and the test that
\* follows them has a frame record if and only if its thumbnail file exists,
\* whether or not its full image exists; the record of event n names the
\* thumbnail and the full image of number n.
C19_RecordIffThumbnail ==
    pc \in { "thumb", "full", "record", "manifest", "done" } =>
        /\ \A n \in 1..i : (n \in Recorded) <=> (n \in out_dir.thumbs)
        /\ \A k \in DOMAIN frames :
              frames[k].thumbnail = frames[k].number /\ frames[k].full = frames[k].number

\* both consequences in one finished run: the record of event 2 names a full
\* image that does not exist, and event 1, whose full image was written but
\* whose thumbnail was not, has no record
C19_Witness ==
    /\ pc = "done"
    /\ Len(sorted_data) = 2
    /\ 2 \in Recorded /\ 2 \notin out_dir.fulls
    /\ 1 \in out_dir.fulls /\ 1 \notin out_dir.thumbs /\ 1 \notin Recorded
    /\ \E k \in DOMAIN out_dir.manifest.frames : out_dir.manifest.frames[k].full = 2

\* the phase of a step: scene detection, subtitle detection, merge (the
\* subtitle loop and the sort that completes the timeline), clearing,
\* extraction, manifest
Phase(op) ==
    CASE op = "detect_shots" -> 1
      [] op \in { "parse_srt", "ffprobe", "demux" } -> 2
      [] op \in { "merge", "sort" } -> 3
      [] op = "rmtree" -> 4
      [] op \in { "mkdir", "thumb", "full" } -> 5
      [] op = "manifest" -> 6

\* the capture steps of the run, thumbnails and full images together, in order
Captures == SelectSeq(history, LAMBDA h : h.op \in { "thumb", "full" })

\* C20: the phases of a run are strictly ordered: no step of a phase comes
\* after a step of a later phase (scene detection, subtitle detection, merge,
\* clearing of the output directory, extraction, manifest); the captures are
\* thumbnail then full image of event 1, then of event 2, and so on, the
\* events being in ascending timestamp order; the manifest step is the last
\* step of the run and comes after both captures of every event.
C20_PhasesOrdered ==
    /\ \A j, k \in DOMAIN history :
          j < k => /\ Phase(history[j].op) <= Phase(history[k].op)
                   /\ history[j].op = "sort" => Phase(history[k].op) > 3
                   /\ history[k].op = "mkdir" => Phase(history[j].op) < 5
    /\ \A p \in DOMAIN Captures :
          /\ Captures[p].op = IF p % 2 = 1 THEN "thumb" ELSE "full"
          /\ Captures[p].n = (p + 1) \div 2
          /\ Captures[p].n \in DOMAIN sorted_data
    /\ Merged => \A a, b \in DOMAIN sorted_data :
                     a < b => sorted_data[a].timestamp < sorted_data[b].timestamp
    /\ \A k \in DOMAIN history :
          history[k].op = "manifest" =>
              /\ k = Len(history)
              /\ Len(Captures) = 2 * Len(sorted_data)
              /\ \E j \in 1..(k - 1) : history[j].op = "rmtree"
              /\ \E j \in 1..(k - 1) : history[j].op = "sort"

\* a finished run that went through every phase: shots detected, a subtitle
\* file parsed, three events extracted
C20_Witness ==
    /\ pc = "done"
    /\ \E k \in DOMAIN history : history[k].op = "detect_shots"
    /\ \E k \in DOMAIN history : history[k].op = "parse_srt"
    /\ \E k \in DOMAIN history : history[k].op = "merge"
    /\ Len(Captures) = 6
    /\ history[Len(history)].op = "manifest"

\* how many steps of kind op the run has taken for number n
CallCount(op, n) ==
    Cardinality({ k \in DOMAIN history : history[k].op = op /\ history[k].n = n })

\* the events whose thumbnail call, and whose full-image call, has been made
ThumbDone == 1..(IF pc \in { "full", "record" } THEN i + 1 ELSE i)
FullDone == 1..(IF pc = "record" THEN i + 1 ELSE i)

\* C21: no failed call is retried.  In a pipeline run every event whose
\* thumbnail call has been made has exactly one thumbnail step and every event
\* whose full-image call has been made has exactly one full-image step,
\* whatever their outcome, and no other event has any; a finished run has one
\* of each for every event of the timeline.  In an OCR scan the k-th sample
\* has exactly one capture step, the k-th, at the sample's time and with the
\* sample's outcome.
C21_NoRetries ==
    /\ pc \in { "thumb", "full", "record", "manifest", "done" } =>
          /\ \A n \in ThumbDone : CallCount("thumb", n) = 1
          /\ \A n \in FullDone : CallCount("full", n) = 1
          /\ Len(Calls("thumb")) = Cardinality(ThumbDone)
          /\ Len(Calls("full")) = Cardinality(FullDone)
          /\ pc \in { "manifest", "done" } => ThumbDone = DOMAIN sorted_data
          /\ pc \in { "manifest", "done" } => FullDone = DOMAIN sorted_data
    /\ pc \in { "scan", "scanned" } =>
          /\ Len(Calls("ocr_frame")) = Len(samples)
          /\ \A k \in DOMAIN samples :
                /\ Calls("ocr_frame")[k].n = samples[k].time
                /\ Calls("ocr_frame")[k].ok = samples[k].frame
                /\ samples[k].time = (k - 1) * sample_interval

\* a finished run in which a thumbnail call and a full-image call have failed
C21_Witness ==
    /\ pc = "done"
    /\ Len(sorted_data) >= 2
    /\ \E k \in DOMAIN history : history[k].op = "thumb" /\ ~history[k].ok
    /\ \E k \in DOMAIN history : history[k].op = "full" /\ ~history[k].ok

\* a returned scan in which a frame capture has failed
C21_WitnessScan ==
    /\ pc = "scanned"
    /\ Len(samples) >= 2
    /\ \E k \in DOMAIN samples : ~samples[k].frame

\* position in the history of the last successful step of one of the kinds ops
\* for number n, 0 when there is none
LastStep(ops, n) ==
    LET ks == { k \in DOMAIN history :
                  history[k].op \in ops /\ history[k].n = n /\ history[k].ok }
    IN  IF ks = {} THEN 0 ELSE CHOOSE k \in ks : \A j \in ks : j <= k

\* the thumbnail of number n on disk was written by the second run
Foreign(n) ==
    /\ n \in out_dir.thumbs
    /\ LastStep({ "thumb", "other_thumb" }, n) # 0
    /\ history[LastStep({ "thumb", "other_thumb" }, n)].op = "other_thumb"

\* the first run has just written its manifest
JustWritten == pc = "done" /\ history[Len(history)] = Step("manifest", 0, TRUE)

\* the frame numbers of the manifest just written whose thumbnail is missing
\* or is the second run's
Corrupted ==
    { n \in { out_dir.manifest.frames[k].number : k \in DOMAIN out_dir.manifest.frames } :
        n \notin out_dir.thumbs \/ Foreign(n) }

\* C22: two interleaved runs on one output directory can corrupt each other:
\* the state of the witness is reachable, and a manifest just written lists a
\* frame whose thumbnail is missing or was produced by the other run only
\* when a directory removal or a write of that thumbnail by the other run
\* has fallen between this run's own directory removal and its manifest write.
C22_CorruptionByInterleaving ==
    JustWritten =>
        \A n \in Corrupted :
            \E c, j \in DOMAIN history :
                /\ history[c].op = "rmtree"
                /\ c < j
                /\ j < Len(history)
                /\ \/ history[j] = Step("other_rmtree", 0, TRUE)
                   \/ history[j] = Step("other_thumb", n, TRUE)

\* the manifest the first run has just written lists frame 1, whose thumbnail
\* the second run has overwritten, and frame 2, whose thumbnail the second
\* run's directory removal has deleted, both after the first run's captures
C22_Witness ==
    /\ JustWritten
    /\ Corrupted = { 1, 2 }
    /\ Foreign(1)
    /\ 2 \notin out_dir.thumbs
    /\ LastStep({ "other_rmtree" }, 0) > LastStep({ "thumb" }, 2)
    /\ LastStep({ "thumb" }, 2) > 0

\* C23: the list returned by the OCR scan holds no text twice, whatever the
\* samples returned.
C23_OcrTextsUnique ==
    pc = "scanned" =>
        \A d, e \in DOMAIN subtitles : subtitles[d][2] = subtitles[e][2] => d = e

\* the file without its malformed blocks
WellFormedOnly == SelectSeq(srt_file, WellFormed)

\* C24: malformed blocks (fewer than three lines, or a second line that is no
\* time range) are skipped without error and without effect on the other
\* blocks: the parse returns, and its list is the list parse_srt gives for the
\* file with the malformed blocks removed; every event comes from a
\* well-formed block.
C24_MalformedSkipped ==
    pc = "parsed" =>
        /\ subtitles = parse_srt(WellFormedOnly)
        /\ \A e \in DOMAIN subtitles :
              \E k \in DOMAIN srt_file :
                  /\ WellFormed(srt_file[k])
                  /\ subtitles[e] = << StartOf(k), block_text(srt_file[k]) >>

\* a parsed file whose first block has a text but no valid time line and whose
\* second block, well formed, has the same text and is kept
C24_Witness ==
    /\ pc = "parsed"
    /\ Len(srt_file) = 2
    /\ srt_file[1].time.kind = "bad"
    /\ WellFormed(srt_file[2])
    /\ block_text(srt_file[1]) = block_text(srt_file[2])
    /\ Len(subtitles) = 1

\* a timecode as one number, for comparing timecodes
TimecodeValue(tc) == ((tc.hours * 60 + tc.minutes) * 60 + tc.seconds) * Ms + tc.ms

\* C25: for a timestamp of T whole milliseconds the timecode has hours
\* T div 3600000, minutes (T div 60000) mod 60, seconds (T div 1000) mod 60
\* and milliseconds T mod 1000; minutes and seconds are below 60, milliseconds
\* below 1000, and timecodes do not decrease along the records.
C25_TimecodeFields ==
    /\ \A k \in DOMAIN frames :
          LET T  == frames[k].timestamp
              tc == frames[k].timecode
          IN  /\ tc.hours = T \div 3600000
              /\ tc.minutes = (T \div 60000) % 60
              /\ tc.seconds = (T \div 1000) % 60
              /\ tc.ms = T % 1000
              /\ tc.minutes < 60 /\ tc.seconds < 60 /\ tc.ms < 1000
    /\ \A j, k \in DOMAIN frames :
          j < k => TimecodeValue(frames[j].timecode) <= TimecodeValue(frames[k].timecode)

\* C26: an event of the timeline has kind 'shot+subtitle' only at a timestamp
\* the shot detector returned in this run; under --subs-only no event has
\* 'shot' in its kind and the manifest counts no shot frame.
C26_ShotKindNeedsShot ==
    Merged =>
        /\ \A e \in DOMAIN sorted_data :
              sorted_data[e].type = "shot+subtitle" =>
                  sorted_data[e].timestamp \in Range(shot_timestamps)
        /\ args.subs_only =>
              /\ \A e \in DOMAIN sorted_data : ~in_type("shot", sorted_data[e].type)
              /\ pc = "done" => out_dir.manifest.shot_frames = 0

\* C27: no subtitle event is lost in the merge: every (timestamp, text) pair
\* of the subtitle source is the subtitle text of exactly one event of the
\* timeline, the one at that timestamp.
C27_NoSubtitleLost ==
    Merged =>
        \A k \in DOMAIN subtitles :
            Cardinality({ e \in DOMAIN sorted_data :
                            /\ sorted_data[e].timestamp = subtitles[k][1]
                            /\ sorted_data[e].subtitle = subtitles[k][2] }) = 1

\* a step of the scan that avoids the exception and, inside the loop, brings
\* current_time closer to duration
ScanProgress ==
    pc \in { "begin", "scan" } =>
        (/\ pc' # "crashed"
         /\ ((pc = "scan" /\ pc' = "scan") =>
                ((duration - current_time') < (duration - current_time))))

\* C28: the OCR scan terminates for every duration and every sample interval,
\* zero and negative ones included: it does not end in an exception, and
\* every sample it takes brings current_time closer to duration, so that the
\* loop condition fails after finitely many samples.
C28_ScanTerminates == [][ScanProgress]_vars

\* the sample taken by the step, and what the recognition of its frame gave
Sampled == samples' # samples

NewSample == samples'[Len(samples')]

\* samples k, k+1, k+2 are: a text that was recognised, a miss, the same text
SameAround(k) ==
    /\ k + 2 <= Len(samples)
    /\ samples[k].frame /\ samples[k + 2].frame
    /\ Len(samples[k].text) > 0
    /\ samples[k + 2].text = samples[k].text

\* a sample without a frame changes neither last_subtitle nor the events; a
\* sample whose recognition gave '' makes last_subtitle empty and adds no event
SampleRule ==
    Sampled =>
        /\ (~NewSample.frame) =>
               (last_subtitle' = last_subtitle /\ subtitle_changes' = subtitle_changes)
        /\ (NewSample.frame /\ NewSample.text = << >>) =>
               (last_subtitle' = << >> /\ subtitle_changes' = subtitle_changes)

\* a recognition that raises, or whose cleaned text is no longer than two
\* characters, gives ''
ShortOrFailedIsEmpty ==
    \A raw \in RawOcrTexts :
        /\ ocr_subtitle_region(TRUE, raw) = << >>
        /\ Len(remove_weird(collapse_ws(rstrip_ws(lstrip_ws(raw))))) <= 2
              => ocr_subtitle_region(FALSE, raw) = << >>

\* A, no frame, A: the third sample adds no event; A, '', A: it adds one
MissThenSame ==
    \A k \in DOMAIN samples :
        SameAround(k) =>
            /\ (~samples[k + 1].frame) => ~samples[k + 2].emitted
            /\ (samples[k + 1].frame /\ samples[k + 1].text = << >>)
                  => samples[k + 2].emitted

C29_WitnessReset ==
    /\ pc = "scanned"
    /\ SameAround(1)
    /\ samples[2].frame /\ samples[2].text = << >>
    /\ Len(subtitle_changes) = 2
    /\ subtitle_changes[2] = << samples[3].time, samples[1].text >>

\* the steps of the history that read or deleted the temporary file
TempSteps(ops) ==
    { k \in DOMAIN history : history[k].op \in ops /\ history[k].ok }

\* C30: two interleaved runs of the embedded-stream extractor on different
\* videos never read each other's demuxed subtitles and never fail on the
\* temporary file: neither run ends in an exception, each parses only a file
\* demuxed from its own video, and each deletes only such a file.
C30_ExtractorsIsolated ==
    /\ pc # "crashed"
    /\ other.pc # "crashed"
    /\ \A k \in TempSteps({ "parse_temp", "unlink_temp" }) :
          history[k].n = ThisVideo
    /\ \A k \in TempSteps({ "other_parse_temp", "other_unlink_temp" }) :
          history[k].n = OtherVideo

====
